---------------------------- MODULE Spec2Model ----------------------------
(***************************************************************************)
(* Model of bitsof_datascience/bigger_dataset_in_pandas/main.py: the same  *)
(* delimited file is loaded four times with pandas.read_csv (no schema,    *)
(* numeric schema, numeric + categorical schema, the same with usecols),   *)
(* each table is measured with memory_usage(deep=True) and the reduction   *)
(* against the first load is printed.                                      *)
(*                                                                         *)
(* The file is abstracted to what the script observes of it: its header    *)
(* (a set of column names), its number of rows, the number of distinct     *)
(* values of the text columns, the length of the text values and the set   *)
(* of text columns whose values all read as integers.  Floats are modelled *)
(* as exact rationals [num, den]; bytes / 1024 ** 2 is exact in binary     *)
(* floating point, and the sign and the zero of (a - b) / a * 100 are the  *)
(* same in both.                                                           *)
(***************************************************************************)
EXTENDS Integers, Sequences, FiniteSets, TLC

\* ------------------------------------------------------------- bounds
MaxRows == 3
MaxMissing == 1
MaxStrLen == 2

\* ---------------------------------------------------- program constants
\* 1024 ** 2 of to_mb
BytesPerMb == 1048576
\* widths, in bytes, of the representations named in the dtype mappings
Float16Bytes == 2
UInt32Bytes == 4
\* the default (inferred) numeric representations, int64 and float64
WideBytes == 8
\* an object column holds one pointer per row, and deep=True adds the size
\* of each Python string: 49 bytes and one per (ASCII) character
PointerBytes == 8
PyStrOverhead == 49
\* a non-empty table has a RangeIndex
RangeIndexBytes == 128
\* category codes are int8 below 128 categories, int16 below 32768
Int8Limit == 128
Int16Limit == 32768

NumCols == {"floor_area_sqm", "resale_price"}
CatCols == {"flat_model", "flat_type", "storey_range", "block", "town"}
ExtraCols == {"extra_col", "month"}
\* the columns whose values may all read as integers in a file
IntLikeCols == {"block", "extra_col"}

\* the dtype mapping of with_numerical_types
NumericDtype ==
    [c \in NumCols |-> IF c = "floor_area_sqm" THEN "float16" ELSE "uint32"]

\* mutant: the categorical mapping with the entry of town left out
CategoricalDtypeWithoutTown ==
    [c \in NumCols \cup (CatCols \ {"town"}) |->
        IF c = "floor_area_sqm" THEN "float16"
        ELSE IF c = "resale_price" THEN "uint32"
        ELSE "category"]

\* the dtype mapping of with_numerical_and_categorical_types and of
\* with_numerical_and_categorical_types_and_without_unused_columns
CategoricalDtype ==
    [c \in NumCols \cup CatCols |->
        IF c = "floor_area_sqm" THEN "float16"
        ELSE IF c = "resale_price" THEN "uint32"
        ELSE "category"]

\* no_optimization passes no dtype
NoDtype == [c \in {} |-> "object"]

Configs == 1..4

VARIABLES
    file,       \* the content of flat-prices.csv (data_path)
    pc,         \* <<statement, configuration>> of the __main__ block
    df,         \* configuration -> the table its loader returned
    mb,         \* configuration -> the value analyze returned
    reduction,  \* the variable reduction of the __main__ block
    out,        \* the lines printed on standard output
    err         \* the exception that ended the run, "" when none

vars == <<file, pc, df, mb, reduction, out, err>>

\* ------------------------------------------------------------ rationals
RECURSIVE GCD(_, _)
GCD(a, b) == IF b = 0 THEN a ELSE GCD(b, a % b)

Abs(x) == IF x < 0 THEN 0 - x ELSE x

Rat(n, d) == [num |-> n, den |-> d]

RatLess(a, b) ==
    LET g == GCD(a.den, b.den)
    IN  a.num * (b.den \div g) < b.num * (a.den \div g)

RatEq(a, b) ==
    LET g == GCD(a.den, b.den)
    IN  a.num * (b.den \div g) = b.num * (a.den \div g)

RatSub(a, b) ==
    LET g == GCD(a.den, b.den)
    IN  Rat(a.num * (b.den \div g) - b.num * (a.den \div g),
            (a.den \div g) * b.den)

\* a / b for b # 0, cancelling the common factor of the denominators
RatDiv(a, b) ==
    LET g == GCD(a.den, b.den)
        n == a.num * (b.den \div g)
        d == (a.den \div g) * b.num
    IN  IF d < 0 THEN Rat(0 - n, 0 - d) ELSE Rat(n, d)

RatMul(a, k) == Rat(a.num * k, a.den)

\* p / q (q > 0) rounded to the nearest integer, ties to even
RoundDiv(p, q) ==
    LET a == Abs(p)
        lo == a \div q
        r2 == 2 * (a % q)
        up == IF r2 > q THEN lo + 1
              ELSE IF r2 < q THEN lo
              ELSE IF lo % 2 = 0 THEN lo ELSE lo + 1
    IN  IF p < 0 THEN 0 - up ELSE up

\* mutant: analyze returns the bytes, as its docstring words it
to_mb_bytes(bytes) == Rat(bytes, 1)

\* ---------------------------------------------------------------- to_mb
to_mb(bytes) == Rat(bytes, BytesPerMb)

\* ------------------------------------------------------------- read_csv
NoUsecols == <<>>

NoTable ==
    [columns |-> {}, dtypes |-> NoDtype, rows |-> 0, distinct |-> 0,
     strLen |-> 0, indexBytes |-> 0]

\* the representation read_csv infers for a column no dtype names
Infer(f, c) ==
    IF f.rows = 0 THEN "object"
    ELSE IF c = "floor_area_sqm" THEN "float64"
    ELSE IF c = "resale_price" THEN "int64"
    ELSE IF c \in f.intCols THEN "int64"
    ELSE "object"

\* mutant: usecols is not passed on, every column of the header is read
read_csv_all_columns(f, io, dtype, usecols) ==
    IF io # "ok" THEN [error |-> io, table |-> NoTable]
    ELSE [error |-> "",
          table |->
            [columns |-> f.header,
             dtypes |-> [c \in f.header |->
                           IF c \in DOMAIN dtype THEN dtype[c]
                           ELSE Infer(f, c)],
             rows |-> f.rows,
             distinct |-> f.distinct,
             strLen |-> f.strLen,
             indexBytes |-> IF f.rows = 0 THEN f.emptyIndexBytes
                            ELSE RangeIndexBytes]]

\* pandas.read_csv(data_path, dtype=dtype, usecols=usecols); io is what the
\* file system answers when the file is opened
read_csv(f, io, dtype, usecols) ==
    IF io # "ok" THEN [error |-> io, table |-> NoTable]
    ELSE IF usecols # NoUsecols /\ ~(usecols[1] \subseteq f.header)
    THEN [error |-> "ValueError", table |-> NoTable]
    ELSE LET cols == IF usecols = NoUsecols THEN f.header
                     ELSE f.header \cap usecols[1]
         IN  [error |-> "",
              table |->
                [columns |-> cols,
                 dtypes |-> [c \in cols |->
                               IF c \in DOMAIN dtype THEN dtype[c]
                               ELSE Infer(f, c)],
                 rows |-> f.rows,
                 distinct |-> f.distinct,
                 strLen |-> f.strLen,
                 indexBytes |-> IF f.rows = 0 THEN f.emptyIndexBytes
                                ELSE RangeIndexBytes]]

no_optimization(f, io) == read_csv(f, io, NoDtype, NoUsecols)

with_numerical_types(f, io) == read_csv(f, io, NumericDtype, NoUsecols)

with_numerical_and_categorical_types(f, io) ==
    read_csv(f, io, CategoricalDtype, NoUsecols)

\* mutant: the pruning loader without its dtype mapping
without_unused_columns_default_types(f, io) ==
    read_csv(f, io, NoDtype, <<DOMAIN CategoricalDtype>>)

\* mutant: the pruning loader without usecols
without_unused_columns_keeping_columns(f, io) ==
    read_csv(f, io, CategoricalDtype, NoUsecols)

with_numerical_and_categorical_types_and_without_unused_columns(f, io) ==
    read_csv(f, io, CategoricalDtype, <<DOMAIN CategoricalDtype>>)

Loader(k, f, io) ==
    CASE k = 1 -> no_optimization(f, io)
      [] k = 2 -> with_numerical_types(f, io)
      [] k = 3 -> with_numerical_and_categorical_types(f, io)
      [] k = 4 ->
          with_numerical_and_categorical_types_and_without_unused_columns(f, io)

\* ------------------------------------------------ memory_usage(deep=True)
CodesWidth(u) ==
    IF u < Int8Limit THEN 1 ELSE IF u < Int16Limit THEN 2 ELSE 4

StrBytes(t) == PyStrOverhead + t.strLen

ColumnBytes(t, c) ==
    LET d == t.dtypes[c]
    IN  CASE d = "float16" -> Float16Bytes * t.rows
          [] d = "uint32" -> UInt32Bytes * t.rows
          [] d \in {"int64", "float64"} -> WideBytes * t.rows
          [] d = "object" -> t.rows * (PointerBytes + StrBytes(t))
          [] d = "category" ->
                t.rows * CodesWidth(t.distinct)
                + t.distinct * (PointerBytes + StrBytes(t))

RECURSIVE SumBytes(_, _)
SumBytes(t, cols) ==
    IF cols = {} THEN 0
    ELSE LET c == CHOOSE x \in cols : TRUE
         IN  ColumnBytes(t, c) + SumBytes(t, cols \ {c})

\* df.memory_usage(deep=True).sum(): the index and every column
DeepBytes(t) == t.indexBytes + SumBytes(t, t.columns)


\* ------------------------------------------------------- numpy.float64
\* a float is a rational, or one of nan (0/0), inf (1/0) and -inf (-1/0)
NaN == Rat(0, 0)

Inf(sign) == Rat(sign, 0)

Sign(x) == IF x < 0 THEN 0 - 1 ELSE IF x > 0 THEN 1 ELSE 0

\* a / b of two finite floats: a zero divisor gives nan or a signed inf
\* (numpy warns and does not raise)
FloatDiv(a, b) ==
    IF b.num = 0
    THEN IF a.num = 0 THEN NaN ELSE Inf(Sign(a.num))
    ELSE RatDiv(a, b)

FloatMul(a, k) == IF a.den = 0 THEN a ELSE RatMul(a, k)

\* f"{x:.2f}"
Format2(x) ==
    IF x.den = 0
    THEN [text |-> IF x.num = 0 THEN "nan"
                   ELSE IF x.num > 0 THEN "inf" ELSE "-inf",
          neg |-> FALSE, hundredths |-> 0]
    ELSE [text |-> "fixed", neg |-> x.num < 0,
          hundredths |-> Abs(RoundDiv(x.num * 100, x.den))]

\* --------------------------------------------------------------- output
NoValue == [text |-> "", neg |-> FALSE, hundredths |-> 0]

LabelLine(title, x) ==
    [kind |-> "label", title |-> title, value |-> Format2(x),
     dtypes |-> NoDtype]

DtypesLine(t) ==
    [kind |-> "dtypes", title |-> "", value |-> NoValue, dtypes |-> t.dtypes]

BlankLine ==
    [kind |-> "blank", title |-> "", value |-> NoValue, dtypes |-> NoDtype]

ReductionLine(r) ==
    [kind |-> "reduction", title |-> "Size reduced by", value |-> Format2(r),
     dtypes |-> NoDtype]

\* -------------------------------------------------------------- analyze
\* analyze(df, title): the value returned and the lines printed
analyze(t, title) ==
    LET bytes == DeepBytes(t)
        m == to_mb(bytes)
    IN  [result |-> m, lines |-> <<LabelLine(title, m), DtypesLine(t)>>]

\* ------------------------------------------------------------- __main__
Title(k) ==
    CASE k = 1 -> "No optimizations"
      [] k = 2 -> "Proper numerical types"
      [] k = 3 -> "Proper numerical and categorical types"
      [] k = 4 ->
          "Proper numerical and categorical types, without unused columns"

\* mutant: the reduction against the previous configuration
BaselinePrevious(k) == k - 1

\* the configuration whose MB value the reduction of configuration k is
\* computed against: mb_no_opti in all three computations
Baseline(k) == 1

\* mutant: a zero baseline is replaced by a reduction of 0
ReductionGuarded(a, b) ==
    IF a.num = 0 THEN Rat(0, 1)
    ELSE FloatMul(FloatDiv(RatSub(a, b), a), 100)

\* mutant: the operands of the subtraction exchanged
ReductionSwapped(a, b) == FloatMul(FloatDiv(RatSub(b, a), a), 100)

\* (mb_no_opti - mb_k) / mb_no_opti * 100
Reduction(a, b) == FloatMul(FloatDiv(RatSub(a, b), a), 100)

\* mutant: a failed load is tried again
AfterLoadRetry(k, error) ==
    IF error = "" THEN <<"analyze", k>> ELSE <<"load", k>>

\* the statement that follows the load of configuration k: an exception of
\* the loader is not caught and ends the run
AfterLoad(k, error) ==
    IF error = "" THEN <<"analyze", k>> ELSE <<"failed", k>>

\* the statement that follows analyze of configuration k
AfterAnalyze(k) == IF k = 1 THEN <<"blank", k>> ELSE <<"reduce", k>>

\* the statement that follows the reduction line of configuration k
AfterReduce(k) == IF k < 4 THEN <<"blank", k>> ELSE <<"done", k>>

Bind(f, k, v) == [j \in DOMAIN f \cup {k} |-> IF j = k THEN v ELSE f[j]]

Unbound == [k \in {} |-> 0]

IOOutcomes == {"ok", "FileNotFoundError", "ParserError"}

Missing(h) == (NumCols \cup CatCols) \ h

Headers ==
    {h \in SUBSET (NumCols \cup CatCols \cup ExtraCols) :
        Cardinality(Missing(h)) <= MaxMissing}

\* the files of the model.  A header-only file gives an empty table whose
\* index is, depending on the pandas release, an empty object Index (0
\* bytes) or a RangeIndex: both are drawn.
Files ==
    {[header |-> h, rows |-> 0, distinct |-> 0, strLen |-> 1,
      intCols |-> {}, emptyIndexBytes |-> e] :
        h \in Headers, e \in {0, RangeIndexBytes}}
    \cup
    UNION {
        {[header |-> h, rows |-> n, distinct |-> d, strLen |-> l,
          intCols |-> i, emptyIndexBytes |-> RangeIndexBytes] :
            d \in 1..n, l \in 1..MaxStrLen, i \in SUBSET (IntLikeCols \cap h)}
        : h \in Headers, n \in 1..MaxRows}

Init ==
    /\ file \in Files
    /\ pc = <<"load", 1>>
    /\ df = Unbound
    /\ mb = Unbound
    /\ reduction = NaN
    /\ out = <<>>
    /\ err = ""

\* df_k = loader_k()
Load(k) ==
    /\ pc = <<"load", k>>
    /\ \E io \in IOOutcomes :
        LET r == Loader(k, file, io)
        IN  /\ df' = IF r.error = "" THEN Bind(df, k, r.table) ELSE df
            /\ err' = r.error
            /\ pc' = AfterLoad(k, r.error)
    /\ UNCHANGED <<file, mb, reduction, out>>

\* mb_k = analyze(df_k, title_k)
Analyze(k) ==
    /\ pc = <<"analyze", k>>
    /\ LET a == analyze(df[k], Title(k))
       IN  /\ mb' = Bind(mb, k, a.result)
           /\ out' = out \o a.lines
    /\ pc' = AfterAnalyze(k)
    /\ UNCHANGED <<file, df, reduction, err>>

\* reduction = (mb_no_opti - mb_k) / mb_no_opti * 100; print(...)
Reduce(k) ==
    /\ pc = <<"reduce", k>>
    /\ reduction' = Reduction(mb[Baseline(k)], mb[k])
    /\ out' = Append(out, ReductionLine(reduction'))
    /\ pc' = AfterReduce(k)
    /\ UNCHANGED <<file, df, mb, err>>

\* print()
Blank(k) ==
    /\ pc = <<"blank", k>>
    /\ out' = Append(out, BlankLine)
    /\ pc' = <<"load", k + 1>>
    /\ UNCHANGED <<file, df, mb, reduction, err>>

Next == \E k \in Configs : Load(k) \/ Analyze(k) \/ Reduce(k) \/ Blank(k)

Spec == Init /\ [][Next]_vars

\* ===================================================================
\* Properties
\* ===================================================================
SchemaKeys == DOMAIN CategoricalDtype

\* what a complete cycle of configuration k prints, from the table it loaded
\* and the values analyze returned
Cycle(k) ==
    <<LabelLine(Title(k), mb[k]), DtypesLine(df[k])>>
    \o (IF k = 1 THEN <<>>
        ELSE <<ReductionLine(Reduction(mb[1], mb[k]))>>)
    \o (IF k < 4 THEN <<BlankLine>> ELSE <<>>)

RECURSIVE Cycles(_)
Cycles(k) == IF k = 0 THEN <<>> ELSE Cycles(k - 1) \o Cycle(k)

\* the kinds of the lines of a complete run, in order
RunKinds ==
    <<"label", "dtypes", "blank",
      "label", "dtypes", "reduction", "blank",
      "label", "dtypes", "reduction", "blank",
      "label", "dtypes", "reduction">>

Labels == {i \in 1..Len(out) : out[i].kind = "label"}

\* C1: the four configurations are loaded and analyzed in the order 1, 2,
\* 3, 4; a configuration is loaded before its analyze output and only after
\* the previous one was analyzed; the lines of a run are, in order, label
\* and column listing of each configuration, a reduction line after those
\* of 2, 3 and 4 and none for 1; and in a complete run every reduction line
\* is the one computed from the value of configuration 1.
C1_FixedOrder ==
    /\ \A k \in DOMAIN df : \A j \in 1..(k - 1) : j \in DOMAIN mb
    /\ \A k \in DOMAIN mb : k \in DOMAIN df
    /\ Len(out) <= Len(RunKinds)
    /\ \A i \in 1..Len(out) : out[i].kind = RunKinds[i]
    /\ \A i \in Labels :
          LET k == Cardinality({j \in Labels : j <= i})
          IN  out[i].title = Title(k) /\ k \in DOMAIN df
    /\ pc[1] = "done" =>
          /\ DOMAIN df = Configs /\ DOMAIN mb = Configs
          /\ out = Cycles(4)

C1_Witness ==
    /\ pc[1] = "done"
    /\ mb[2] # mb[1]
    /\ mb[3] # mb[2]
    /\ Format2(Reduction(mb[2], mb[3])) # Format2(Reduction(mb[1], mb[3]))

\* C2: a load of configuration k that fails ends the run there: the load is
\* not tried again, nothing is printed for configuration k, no later
\* configuration is loaded or analyzed, and the output is the complete
\* output of configurations 1..k-1.
C2_LoadFailureEndsRun ==
    /\ err # "" => pc[1] = "failed"
    /\ pc[1] = "failed" =>
          LET k == pc[2]
          IN  /\ err # ""
              /\ DOMAIN df = 1..(k - 1)
              /\ DOMAIN mb = 1..(k - 1)
              /\ out = Cycles(k - 1)
              /\ \A i \in 1..Len(out) :
                    \A j \in k..4 : out[i].title # Title(j)
              /\ ~ENABLED Next

C2_Witness ==
    /\ pc = <<"failed", 4>>
    /\ err = "ValueError"
    /\ Len(out) = 11

\* C3: when the header holds the seven schema columns (and any others),
\* the table of configuration 4 has exactly the schema's keys as columns,
\* and the tables of configurations 1-3 have every column of the header.
C3_PrunedColumns ==
    SchemaKeys \subseteq file.header =>
        /\ 4 \in DOMAIN df => df[4].columns = SchemaKeys
        /\ \A k \in DOMAIN df \cap 1..3 : df[k].columns = file.header

C3_Witness ==
    /\ SchemaKeys \subseteq file.header
    /\ ExtraCols \subseteq file.header
    /\ 4 \in DOMAIN df

\* C4: a header that lacks a column of a loader's schema makes the load
\* raise in configurations 2, 3 and 4 (and not in configuration 1).
C4_AbsentColumnRaises ==
    /\ 2 \in DOMAIN df => NumCols \subseteq file.header
    /\ 3 \in DOMAIN df => SchemaKeys \subseteq file.header
    /\ 4 \in DOMAIN df => SchemaKeys \subseteq file.header

\* C5 as stated: every value analyze returns is non-negative, and the value
\* of configuration 4 is at most the value of configuration 1.
C5_PrunedAtMostBaseline ==
    /\ \A k \in DOMAIN mb : mb[k].num >= 0 /\ mb[k].den > 0
    /\ 4 \in DOMAIN mb => ~RatLess(mb[1], mb[4])

\* C5 amended: every value analyze returns is non-negative, and the value
\* of configuration 4 is at most the value of configuration 3.
C5_PrunedAtMostCategorical ==
    /\ \A k \in DOMAIN mb : mb[k].num >= 0 /\ mb[k].den > 0
    /\ 4 \in DOMAIN mb => ~RatLess(mb[3], mb[4])

C5_Witness ==
    /\ 4 \in DOMAIN mb
    /\ RatLess(mb[4], mb[3])
    /\ RatLess(mb[1], mb[4])

\* C6: with a baseline of 0 MB the reduction is still computed: each of the
\* three computations runs, and what is printed is the outcome of a
\* division by zero (nan or an infinity), not a substituted number.
C6_ZeroBaselineUnguarded ==
    (1 \in DOMAIN mb /\ mb[1].num = 0) =>
        /\ pc[1] = "reduce" => ENABLED Reduce(pc[2])
        /\ \A k \in 2..4 :
              pc = AfterReduce(k) =>
                  /\ reduction.den = 0
                  /\ out[Len(out)].kind = "reduction"
                  /\ out[Len(out)].value.text \in {"nan", "inf", "-inf"}

C6_Witness ==
    /\ pc[1] = "done"
    /\ mb[1].num = 0

\* C7: with a non-zero baseline, a configuration whose value equals the
\* baseline gets a reduction of exactly 0, printed as 0.00; the reduction
\* is positive exactly when the configuration's value is below the baseline
\* and negative exactly when it is above.
C7_ReductionSign ==
    \A k \in 2..4 :
        (pc = AfterReduce(k) /\ mb[1].num # 0) =>
            /\ reduction.den > 0
            /\ mb[k] = mb[1] =>
                  /\ reduction.num = 0
                  /\ out[Len(out)] =
                        [kind |-> "reduction", title |-> "Size reduced by",
                         value |-> [text |-> "fixed", neg |-> FALSE,
                                    hundredths |-> 0],
                         dtypes |-> NoDtype]
            /\ reduction.num > 0 <=> RatLess(mb[k], mb[1])
            /\ reduction.num < 0 <=> RatLess(mb[1], mb[k])

C7_Witness ==
    /\ pc = AfterReduce(2)
    /\ mb[1].num # 0
    /\ mb[2] = mb[1]

C9_SchemaFrame ==
    /\ 2 \in DOMAIN df =>
          \A c \in file.header :
              /\ c = "floor_area_sqm" => df[2].dtypes[c] = "float16"
              /\ c = "resale_price" => df[2].dtypes[c] = "uint32"
              /\ c \notin NumCols => df[2].dtypes[c] = df[1].dtypes[c]
              /\ df[1].dtypes[c] \notin {"float16", "uint32", "category"}
    /\ 3 \in DOMAIN df =>
          \A c \in file.header :
              /\ c \in CatCols => df[3].dtypes[c] = "category"
              /\ c \in NumCols => df[3].dtypes[c] = df[2].dtypes[c]
              /\ c \notin NumCols \cup CatCols =>
                    df[3].dtypes[c] = df[1].dtypes[c]
    /\ 4 \in DOMAIN df =>
          \A c \in df[4].columns : df[4].dtypes[c] = df[3].dtypes[c]

C9_Witness ==
    /\ DOMAIN df = Configs
    /\ file.rows > 0
    /\ ExtraCols \subseteq file.header
    /\ "extra_col" \in file.intCols

\* the 3-row file with the seven schema columns and extra_col, whose text
\* columns repeat values
Fixture ==
    /\ file.header = SchemaKeys \cup {"extra_col"}
    /\ file.rows = 3
    /\ file.distinct < 3

=============================================================================
